---- MODULE Spec2Model ----
(***************************************************************************)
(* keiro: a router for hyper services.  A Router holds one route table     *)
(* (route_recognizer::Router) per HTTP method, an optional not-found       *)
(* handler and a shared state.  Routes are registered, the router is       *)
(* frozen into a RouterService, and the host dispatches requests to it.    *)
(*                                                                         *)
(* Text (route patterns, request paths, parameter names, captures) is a    *)
(* sequence of one-character strings, so that the matcher works on         *)
(* characters as the route table does.                                     *)
(***************************************************************************)
EXTENDS Integers, Sequences, FiniteSets, TLC

VARIABLES
    inner,      \* Router.inner: method -> route table (only methods with a table)
    not_found,  \* Router.not_found: None or the installed handler
    state,      \* Router.state
    routes,     \* history: the registrations made, in order; a handler is
                \* identified by the position of its registration
    phase,      \* "build" while the Router is owned mutably, "serving" once
                \* it is behind the Arc of a RouterService
    futs,       \* the futures returned by RouterService::call, by slot
    nf_given,   \* history: the handler given to the latest not_found call,
                \* and the different handler that call replaced, if any
    svcs,       \* the service instances MakeRouterService::call has yielded
    polled      \* the latest poll_ready made and what it returned

vars == <<inner, not_found, state, routes, phase, futs, nf_given, svcs, polled>>

----------------------------------------------------------------------------
(* Bounds *)

MaxRoutes == 2
MaxSegs == 3
MaxInflight == 2
MaxConns == 2

None == -1

----------------------------------------------------------------------------
(* Route patterns and paths as '/'-delimited segments *)

MinOf(S) == CHOOSE x \in S : \A y \in S : x <= y

\* Both add and recognize drop one leading '/'.
strip_slash(text) ==
    IF Len(text) > 0 /\ text[1] = "/" THEN Tail(text) ELSE text

RECURSIVE split_from(_, _)
split_from(text, p) ==
    LET seps == {i \in p..Len(text) : text[i] = "/"}
    IN  IF seps = {} THEN <<SubSeq(text, p, Len(text))>>
        ELSE <<SubSeq(text, p, MinOf(seps) - 1)>>
             \o split_from(text, MinOf(seps) + 1)

\* The segments of a path or pattern: the text between the '/' that follow
\* its leading '/'.  "/" has one segment, the empty one.
Split(text) == split_from(strip_slash(text), 1)

IsParamSeg(seg) == Len(seg) > 0 /\ seg[1] = ":"

IsWildSeg(seg) == Len(seg) > 0 /\ seg[1] = "*"

HasDot(text) == \E i \in 1..Len(text) : text[i] = "."

\* The names a pattern captures under, by segment.
CaptureNames(segs) ==
    {Tail(segs[k]) : k \in {j \in 1..Len(segs) :
                              IsParamSeg(segs[j]) \/ IsWildSeg(segs[j])}}
    \ {<<>>}

\* Route Pattern invariants: a wildcard only as the final segment, and no
\* name captured twice.
WellFormed(pattern) ==
    LET segs == Split(pattern)
    IN  /\ \A k \in 1..Len(segs) : IsWildSeg(segs[k]) => k = Len(segs)
        /\ \A j, k \in 1..Len(segs) :
              /\ j < k
              /\ IsParamSeg(segs[j]) \/ IsWildSeg(segs[j])
              /\ IsParamSeg(segs[k]) \/ IsWildSeg(segs[k])
              /\ Tail(segs[j]) # <<>>
              => Tail(segs[j]) # Tail(segs[k])

\* Literal and Param segments only, '/' the only delimiter.
PlainPattern(pattern) ==
    /\ ~HasDot(pattern)
    /\ \A k \in 1..Len(Split(pattern)) : ~IsWildSeg(Split(pattern)[k])

\* Literal and Param segments, then one final Wildcard segment.
WildcardPattern(pattern) ==
    LET segs == Split(pattern)
    IN  /\ ~HasDot(pattern)
        /\ IsWildSeg(segs[Len(segs)])
        /\ \A k \in 1..(Len(segs) - 1) : ~IsWildSeg(segs[k])

\* Segment k of the path is what segment k of the pattern asks for: the same
\* text for a Literal, any one non-empty segment for a Param.
SegmentAligns(pat, seg) ==
    IF IsParamSeg(pat) THEN seg # <<>> ELSE pat = seg

\* Positional alignment of a Literal/Param pattern and a path.
Aligns(pattern, path) ==
    LET pat == Split(pattern)
        segs == Split(path)
    IN  /\ Len(pat) = Len(segs)
        /\ \A k \in 1..Len(pat) : SegmentAligns(pat[k], segs[k])

RECURSIVE join_from(_, _)
join_from(segs, k) ==
    IF k > Len(segs) THEN <<>>
    ELSE IF k = Len(segs) THEN segs[k]
    ELSE segs[k] \o <<"/">> \o join_from(segs, k + 1)

\* Alignment of a pattern that ends in a Wildcard: the segments before it
\* align one to one and a non-empty remainder is left for the wildcard.
WildcardAligns(pattern, path) ==
    LET pat == Split(pattern)
        segs == Split(path)
        n == Len(pat)
    IN  /\ Len(segs) >= n
        /\ \A k \in 1..(n - 1) : SegmentAligns(pat[k], segs[k])
        /\ join_from(segs, n) # <<>>

----------------------------------------------------------------------------
(* route_recognizer::nfa *)

AnyChar == [kind |-> "any", ch |-> ""]
ValidChar(c) == [kind |-> "valid", ch |-> c]
InvalidChar(c) == [kind |-> "invalid", ch |-> c]

CharMatches(cls, c) ==
    CASE cls.kind = "any" -> TRUE
      [] cls.kind = "valid" -> c = cls.ch
      [] OTHER -> c # cls.ch

NoMetadata ==
    [some |-> FALSE, statics |-> 0, dynamics |-> 0, wildcards |-> 0,
     param_names |-> <<>>]

NewMetadata ==
    [some |-> TRUE, statics |-> 0, dynamics |-> 0, wildcards |-> 0,
     param_names |-> <<>>]

NewState(chars) ==
    [chars |-> chars, next_states |-> <<>>, acceptance |-> FALSE,
     start_capture |-> FALSE, end_capture |-> FALSE, metadata |-> NoMetadata]

\* NFA::new: the root state; state i of the source is element i + 1 here.
NewNFA == <<NewState(AnyChar)>>

Root == Len(NewNFA)

\* NFA::put: the child of `index` with the same character class, or a new state.
put(nfa, index, chars) ==
    LET ns == nfa[index].next_states
        hits == {k \in 1..Len(ns) : nfa[ns[k]].chars = chars}
        new == Len(nfa) + 1
    IN  IF hits # {}
        THEN [nfa |-> nfa, state |-> ns[MinOf(hits)]]
        ELSE [nfa |-> [Append(nfa, NewState(chars))
                           EXCEPT ![index].next_states = Append(@, new)],
              state |-> new]

\* NFA::put_state
put_state(nfa, index, child) ==
    IF \E k \in 1..Len(nfa[index].next_states) : nfa[index].next_states[k] = child
    THEN nfa
    ELSE [nfa EXCEPT ![index].next_states = Append(@, child)]

\* Thread::new
NewThread == [state |-> Root, captures |-> <<>>, capture_begin |-> None]

\* nfa::capture
capture(nfa, thread, current_state, next_state, pos) ==
    LET t1 == IF thread.capture_begin = None /\ nfa[next_state].start_capture
              THEN [thread EXCEPT !.capture_begin = pos]
              ELSE thread
    IN  IF /\ t1.capture_begin # None
           /\ nfa[current_state].end_capture
           /\ next_state > current_state
        THEN [t1 EXCEPT !.captures = Append(@, <<t1.capture_begin, pos>>),
                        !.capture_begin = None]
        ELSE t1

\* One thread on one character: a thread per matching next state, in the
\* order of next_states (the count == 1 shortcut and the fork give the same).
RECURSIVE step_thread(_, _, _, _, _)
step_thread(nfa, thread, char, pos, k) ==
    LET ns == nfa[thread.state].next_states
    IN  IF k > Len(ns) THEN <<>>
        ELSE (IF CharMatches(nfa[ns[k]].chars, char)
              THEN <<capture(nfa, [thread EXCEPT !.state = ns[k]],
                             thread.state, ns[k], pos)>>
              ELSE <<>>)
             \o step_thread(nfa, thread, char, pos, k + 1)

\* NFA::process_char
RECURSIVE process_char(_, _, _, _, _)
process_char(nfa, threads, char, pos, t) ==
    IF t > Len(threads) THEN <<>>
    ELSE step_thread(nfa, threads[t], char, pos, 1)
         \o process_char(nfa, threads, char, pos, t + 1)

\* Mutant: the comparison starts from the wildcards.
MetadataLess_wildcards_first(x, y) ==
    IF x.wildcards # y.wildcards THEN x.wildcards < y.wildcards
    ELSE IF x.dynamics # y.dynamics THEN x.dynamics < y.dynamics
    ELSE x.statics < y.statics

\* Ord for Metadata: statics, then dynamics, then wildcards.
MetadataLess(x, y) ==
    IF x.statics # y.statics THEN x.statics < y.statics
    ELSE IF x.dynamics # y.dynamics THEN x.dynamics < y.dynamics
    ELSE x.wildcards < y.wildcards

\* The fold of NFA::process over the accepting threads: a later thread
\* replaces the kept one only when its metadata is strictly greater.
RECURSIVE best_thread(_, _, _, _)
best_thread(nfa, threads, k, prev) ==
    IF k > Len(threads) THEN prev
    ELSE IF ~nfa[threads[k].state].acceptance
         THEN best_thread(nfa, threads, k + 1, prev)
    ELSE IF prev = <<>>
         THEN best_thread(nfa, threads, k + 1, <<threads[k]>>)
    ELSE IF MetadataLess(nfa[prev[1].state].metadata,
                         nfa[threads[k].state].metadata)
         THEN best_thread(nfa, threads, k + 1, <<threads[k]>>)
    ELSE best_thread(nfa, threads, k + 1, prev)

\* The character loop of NFA::process; <<>> when the threads die out.
RECURSIVE run_threads(_, _, _, _)
run_threads(nfa, string, i, threads) ==
    IF i > Len(string) THEN threads
    ELSE LET next_threads == process_char(nfa, threads, string[i], i - 1, 1)
         IN  IF next_threads = <<>> THEN <<>>
             ELSE run_threads(nfa, string, i + 1, next_threads)

\* Thread::extract
extract(captures, source) ==
    [i \in 1..Len(captures) |->
        SubSeq(source, captures[i][1] + 1, captures[i][2])]

\* NFA::process
process(nfa, string) ==
    LET threads == run_threads(nfa, string, 1, <<NewThread>>)
        best == best_thread(nfa, threads, 1, <<>>)
    IN  IF best = <<>>
        THEN [ok |-> FALSE, state |-> 0, captures |-> <<>>]
        ELSE LET th == best[1]
                 caps == IF th.capture_begin # None
                         THEN Append(th.captures,
                                     <<th.capture_begin, Len(string)>>)
                         ELSE th.captures
             IN  [ok |-> TRUE, state |-> th.state,
                  captures |-> extract(caps, string)]

----------------------------------------------------------------------------
(* route_recognizer::Router *)

IsSep(c) == c = "." \/ c = "/"

\* The end of the segment starting at position p: the first separator after
\* p, or one past the end of the route.
segment_end(route, p) ==
    LET seps == {i \in (p + 1)..Len(route) : IsSep(route[i])}
    IN  IF seps = {} THEN Len(route) + 1 ELSE MinOf(seps)

\* route_recognizer::segments: the (separator, segment) pairs of a route;
\* sep is "" for the first segment of a route that starts with none.
RECURSIVE segments_from(_, _)
segments_from(route, p) ==
    IF p > Len(route) THEN <<>>
    ELSE LET e == segment_end(route, p)
             sg == IF IsSep(route[p])
                   THEN [sep |-> route[p], seg |-> SubSeq(route, p + 1, e - 1)]
                   ELSE [sep |-> "", seg |-> SubSeq(route, p, e - 1)]
         IN  <<sg>> \o segments_from(route, e)

segments(route) == segments_from(route, 1)

RECURSIVE process_static_segment(_, _, _, _)
process_static_segment(segment, nfa, st, i) ==
    IF i > Len(segment) THEN [nfa |-> nfa, state |-> st]
    ELSE LET r == put(nfa, st, ValidChar(segment[i]))
         IN  process_static_segment(segment, r.nfa, r.state, i + 1)

\* put, put_state(state, state), start_capture, end_capture
capture_state(nfa, st, chars) ==
    LET r == put(nfa, st, chars)
        looped == put_state(r.nfa, r.state, r.state)
    IN  [nfa |-> [looped EXCEPT ![r.state].start_capture = TRUE,
                                ![r.state].end_capture = TRUE],
         state |-> r.state]

\* Mutant: a param state that also takes '/'.
process_dynamic_segment_any(nfa, st) == capture_state(nfa, st, AnyChar)

process_dynamic_segment(nfa, st) == capture_state(nfa, st, InvalidChar("/"))

\* Mutant: a star state that stops at '/'.
process_star_state_one(nfa, st) == capture_state(nfa, st, InvalidChar("/"))

process_star_state(nfa, st) == capture_state(nfa, st, AnyChar)

\* The body of the loop of Router::add for one (separator, segment).
add_segment(acc, sg) ==
    LET s1 == IF sg.sep # ""
              THEN put(acc.nfa, acc.state, ValidChar(sg.sep))
              ELSE [nfa |-> acc.nfa, state |-> acc.state]
        md == acc.metadata
    IN  IF Len(sg.seg) > 0 /\ sg.seg[1] = ":"
        THEN LET r == process_dynamic_segment(s1.nfa, s1.state)
             IN  [nfa |-> r.nfa, state |-> r.state,
                  metadata |-> [md EXCEPT !.dynamics = @ + 1,
                                          !.param_names = Append(@, Tail(sg.seg))]]
        ELSE IF Len(sg.seg) > 0 /\ sg.seg[1] = "*"
        THEN LET r == process_star_state(s1.nfa, s1.state)
             IN  [nfa |-> r.nfa, state |-> r.state,
                  metadata |-> [md EXCEPT !.wildcards = @ + 1,
                                          !.param_names = Append(@, Tail(sg.seg))]]
        ELSE LET r == process_static_segment(sg.seg, s1.nfa, s1.state, 1)
             IN  [nfa |-> r.nfa, state |-> r.state,
                  metadata |-> [md EXCEPT !.statics = @ + 1]]

RECURSIVE add_segments(_, _, _)
add_segments(acc, segs, i) ==
    IF i > Len(segs) THEN acc
    ELSE add_segments(add_segment(acc, segs[i]), segs, i + 1)

\* route_recognizer::Router::new
NewInnerRouter == [nfa |-> NewNFA, handlers |-> <<>>]

\* Mutant: a route that breaks the Route Pattern invariants is not added.
add_checked(router, route, dest) ==
    IF ~WellFormed(route) THEN router
    ELSE LET acc == add_segments([nfa |-> router.nfa, state |-> Root,
                                  metadata |-> NewMetadata],
                                 segments(strip_slash(route)), 1)
         IN  [nfa |-> [acc.nfa EXCEPT ![acc.state].acceptance = TRUE,
                                      ![acc.state].metadata = acc.metadata],
              handlers |-> (acc.state :> dest) @@ router.handlers]

\* route_recognizer::Router::add: never fails; the acceptance state gets the
\* metadata of this route and handlers.insert replaces what was there.
add(router, route, dest) ==
    LET acc == add_segments([nfa |-> router.nfa, state |-> Root,
                             metadata |-> NewMetadata],
                            segments(strip_slash(route)), 1)
    IN  [nfa |-> [acc.nfa EXCEPT ![acc.state].acceptance = TRUE,
                                 ![acc.state].metadata = acc.metadata],
         handlers |-> (acc.state :> dest) @@ router.handlers]

\* Params::insert for each capture whose name is not empty, in order: a
\* repeated name keeps the value inserted last.
RECURSIVE insert_params(_, _, _, _)
insert_params(map, param_names, captures, i) ==
    IF i > Len(captures) THEN map
    ELSE insert_params(IF param_names[i] # <<>>
                       THEN (param_names[i] :> captures[i]) @@ map
                       ELSE map,
                       param_names, captures, i + 1)

\* route_recognizer::Router::recognize
recognize(router, path) ==
    LET text == strip_slash(path)
        m == process(router.nfa, text)
    IN  IF ~m.ok THEN [ok |-> FALSE, handler |-> None, params |-> <<>>]
        ELSE [ok |-> TRUE,
              handler |-> router.handlers[m.state],
              params |-> insert_params(<<>>,
                            router.nfa[m.state].metadata.param_names,
                            m.captures, 1)]

\* Params::find: the value or None.
find(params, key) ==
    IF key \in DOMAIN params THEN params[key] ELSE None

----------------------------------------------------------------------------
(* Text of the routes and paths the model registers and dispatches *)

Segs == {<<"a">>, <<"b">>, <<>>}

RECURSIVE join(_, _)
join(segs, i) ==
    IF i > Len(segs) THEN <<>>
    ELSE <<"/">> \o segs[i] \o join(segs, i + 1)

\* Every path of 1..MaxSegs segments: "/" is the path of one empty segment.
Paths ==
    {join(sq, 1) : sq \in UNION {[1..n -> Segs] : n \in 1..MaxSegs}}

\* The paths dispatched where the methods are what is explored.
ProbePaths == {<<"/">>, <<"/", "a">>, <<"/", "b">>, <<"/", "a", "/", "b">>}

\* The routes registered where the methods are what is explored.
ProbeRoutes == {<<"/">>, <<"/", "a">>, <<"/", ":", "x">>}

\* The routes registered where the matching is what is explored.
MatchRoutes ==
    { <<"/">>,
      <<"/", "a">>,
      <<"/", ":", "x">>,
      <<"/", ":", "y">>,
      <<"/", "a", "/", ":", "x">>,
      <<"/", ":", "x", "/", "b">>,
      <<"/", ":", "x", "/", ":", "y">>,
      <<"/", ":", "x", "/", ":", "x">>,
      <<"/", "a", "/", "*", "w">>,
      <<"/", "a", "/", "*">>,
      <<"/", "*", "w">>,
      <<"/", "*", "w", "/", "b">> }

\* The routes and the paths of the runs with several calls in flight.
ConcRoutes == {<<"/", "a">>, <<"/", ":", "x">>}

ConcPaths == {<<"/", "a">>, <<"/", "b">>}

\* The route of the runs through the factory.
SvcRoutes == {<<"/", "a">>}

\* What the host passes to the factory for a connection.
Signals == {"conn1", "conn2"}

Methods == {"GET", "POST", "PUT", "DELETE", "PATCH"}

\* hyper::Method of a request: also one no registration function names.
RequestMethods == Methods \cup {"HEAD"}

States == {"unit", "s1"}

NoHandler == [kind |-> "none", id |-> 0]

RouteHandler(n) == [kind |-> "route", id |-> n]

NotFoundHandlers == {[kind |-> "not_found", id |-> n] : n \in {1, 2}}

\* What a handler's future resolves to.
Outcomes == {"ok", "err"}

----------------------------------------------------------------------------
(* keiro *)

NoParams == [some |-> FALSE, map |-> <<>>]

NoState == "none"

\* A hyper::Request as the host hands it over: no extensions set.
Request(method, path) ==
    [method |-> method, path |-> path, params |-> NoParams, state |-> NoState]

\* RequestExt::params
params(req) == req.params

\* RequestExt::state
state_of(req) == req.state

\* Mutant: the default path fails.
Default500 == [ok |-> FALSE, status |-> 500, body |-> <<>>]

\* Response::builder().status(404).body(Body::empty())
Default404 == [ok |-> TRUE, status |-> 404, body |-> <<>>]

\* What the handler `h` returns for a request: handlers are opaque, so a
\* response carries the handler and the request it saw, an error the handler.
HandlerResult(h, req, outcome) ==
    IF outcome = "ok"
    THEN [ok |-> TRUE, status |-> IF h.kind = "route" THEN 200 ELSE 404,
          body |-> <<h, req>>]
    ELSE [ok |-> FALSE, status |-> 0, body |-> <<h>>]

\* Mutant: the table is looked up whatever the method of the request.
serve_any_table(router, req) ==
    LET hit == {m \in DOMAIN router.inner :
                   recognize(router.inner[m], req.path).ok}
    IN  IF hit # {}
        THEN LET matcher == recognize(router.inner[CHOOSE m \in hit : TRUE],
                                      req.path)
             IN  [via |-> "route", handler |-> matcher.handler,
                  req |-> [req EXCEPT
                             !.params = [some |-> TRUE, map |-> matcher.params],
                             !.state = router.state]]
        ELSE [via |-> "default", handler |-> NoHandler, req |-> req]

\* Mutant: an empty Params is inserted before the lookup, so the not-found
\* handler sees one too.
serve_params_on_miss(router, req) ==
    IF req.method \in DOMAIN router.inner
    THEN LET matcher == recognize(router.inner[req.method], req.path)
         IN  IF matcher.ok
             THEN [via |-> "route", handler |-> matcher.handler,
                   req |-> [req EXCEPT
                              !.params = [some |-> TRUE, map |-> matcher.params],
                              !.state = router.state]]
             ELSE IF router.not_found # NoHandler
                  THEN [via |-> "not_found", handler |-> router.not_found,
                        req |-> [req EXCEPT
                                   !.params = [some |-> TRUE, map |-> <<>>]]]
                  ELSE [via |-> "default", handler |-> NoHandler, req |-> req]
    ELSE [via |-> "default", handler |-> NoHandler, req |-> req]

\* Mutant: an installed not-found handler is tried before the table.
serve_not_found_first(router, req) ==
    IF req.method \in DOMAIN router.inner
    THEN LET matcher == recognize(router.inner[req.method], req.path)
         IN  IF router.not_found # NoHandler
             THEN [via |-> "not_found", handler |-> router.not_found,
                   req |-> req]
             ELSE IF matcher.ok
             THEN [via |-> "route", handler |-> matcher.handler,
                   req |-> [req EXCEPT
                              !.params = [some |-> TRUE, map |-> matcher.params],
                              !.state = router.state]]
             ELSE [via |-> "default", handler |-> NoHandler, req |-> req]
    ELSE [via |-> "default", handler |-> NoHandler, req |-> req]

\* Mutant: the state is not inserted into the extensions.
serve_no_state(router, req) ==
    IF req.method \in DOMAIN router.inner
    THEN LET matcher == recognize(router.inner[req.method], req.path)
         IN  IF matcher.ok
             THEN [via |-> "route", handler |-> matcher.handler,
                   req |-> [req EXCEPT
                              !.params = [some |-> TRUE, map |-> matcher.params]]]
             ELSE IF router.not_found # NoHandler
                  THEN [via |-> "not_found", handler |-> router.not_found,
                        req |-> req]
                  ELSE [via |-> "default", handler |-> NoHandler, req |-> req]
    ELSE [via |-> "default", handler |-> NoHandler, req |-> req]

\* Router::serve: the future it returns, as the decision taken and the
\* request handed to the handler.
serve(router, req) ==
    IF req.method \in DOMAIN router.inner
    THEN LET matcher == recognize(router.inner[req.method], req.path)
         IN  IF matcher.ok
             THEN [via |-> "route", handler |-> matcher.handler,
                   req |-> [req EXCEPT
                              !.params = [some |-> TRUE, map |-> matcher.params],
                              !.state = router.state]]
             ELSE IF router.not_found # NoHandler
                  THEN [via |-> "not_found", handler |-> router.not_found,
                        req |-> req]
                  ELSE [via |-> "default", handler |-> NoHandler, req |-> req]
    ELSE [via |-> "default", handler |-> NoHandler, req |-> req]

\* Mutant: a lookup miss is returned as an error.
served_propagates_miss(fut, outcome) ==
    IF fut.via = "default" THEN [ok |-> FALSE, status |-> 0, body |-> <<"miss">>]
    ELSE HandlerResult(fut.handler, fut.req, outcome)

\* Mutant: a handler's error is turned into the default response.
served_masks_error(fut, outcome) ==
    IF fut.via = "default" \/ outcome = "err" THEN Default404
    ELSE HandlerResult(fut.handler, fut.req, outcome)

\* The output of the future of Router::serve once it is awaited.
served(fut, outcome) ==
    IF fut.via = "default" THEN Default404
    ELSE HandlerResult(fut.handler, fut.req, outcome)

\* Mutant: the adapter answers a handler's error with a response of its own.
map_err_to_response(res) ==
    IF res.ok THEN res ELSE [ok |-> TRUE, status |-> 500, body |-> <<>>]

\* fut.await.map_err(Into::into) of RouterService::call
map_err(res) ==
    IF res.ok THEN res ELSE [res EXCEPT !.body = <<"boxed">> \o @]

Router == [inner |-> inner, not_found |-> not_found, state |-> state]

\* Mutant: cloning the service copies the Router into an Arc of its own.
clone_deep(svc) == [arc |-> "copy"]

\* #[derive(Clone)] of RouterService(Arc<Router>): the clone shares the Arc.
clone(svc) == svc

\* RouterService::new: Self(Arc::new(router))
RouterServiceNew == [arc |-> "router"]

\* Router::into_service: MakeRouterService { inner: RouterService::new(self) }
MakeRouterService == [inner |-> RouterServiceNew]

\* self.0 of a RouterService: the Router behind the Arc.  The Router is
\* never written once it is behind an Arc, so a copy of it reads the same.
deref(svc) == Router

\* The RouterService a call is made on: the s-th instance the factory has
\* yielded, or the one the factory holds.
service(s) == IF s = None THEN MakeRouterService.inner ELSE svcs[s]

ReadyOk == "Ready(Ok(()))"

NotPolled == [on |-> "", res |-> ""]

\* Mutant: the service is not ready while a call is in flight.
poll_ready_busy(svc) ==
    IF \E i \in DOMAIN futs : futs[i].st = "pending" THEN "Pending" ELSE ReadyOk

\* RouterService::poll_ready
poll_ready(svc) == ReadyOk

\* MakeRouterService::poll_ready
make_poll_ready(make) == ReadyOk

Idle ==
    [st |-> "idle", via |-> "", handler |-> NoHandler,
     req |-> Request("", <<>>), arg |-> Request("", <<>>),
     out |-> Default404, result |-> Default404, invoked |-> <<>>,
     svc |-> None]

\* The slot of a future that was dropped before it completed.
Dropped == [Idle EXCEPT !.st = "dropped"]

\* No future is held in the slot.
Free(id) == futs[id].st \in {"idle", "dropped"}

\* with_state(state): no table, no not-found handler.
Init ==
    /\ inner = <<>>
    /\ not_found = NoHandler
    /\ state \in States
    /\ routes = <<>>
    /\ phase = "build"
    /\ futs = [i \in 1..MaxInflight |-> Idle]
    /\ nf_given = [last |-> NoHandler, over |-> NoHandler]
    /\ svcs = <<>>
    /\ polled = NotPolled

\* Mutant: a route can be registered on a Router that is being served.
Register_while_serving(method, path) ==
    /\ Len(routes) < MaxRoutes
    /\ LET entry == IF method \in DOMAIN inner THEN inner[method]
                    ELSE NewInnerRouter
       IN  inner' = (method :> add(entry, path, RouteHandler(Len(routes) + 1)))
                    @@ inner
    /\ routes' = Append(routes, [method |-> method, path |-> path])
    /\ UNCHANGED <<not_found, state, phase, futs, nf_given, svcs, polled>>

\* Mutant: the table of the method is created anew by every registration.
Register_new_table(method, path) ==
    /\ phase = "build"
    /\ Len(routes) < MaxRoutes
    /\ inner' = (method :> add(NewInnerRouter, path,
                               RouteHandler(Len(routes) + 1))) @@ inner
    /\ routes' = Append(routes, [method |-> method, path |-> path])
    /\ UNCHANGED <<not_found, state, phase, futs, nf_given, svcs, polled>>

\* get/post/put/delete/patch: entry(method).or_insert_with(new), then add.
Register(method, path) ==
    /\ phase = "build"
    /\ Len(routes) < MaxRoutes
    /\ LET entry == IF method \in DOMAIN inner THEN inner[method]
                    ELSE NewInnerRouter
       IN  inner' = (method :> add(entry, path, RouteHandler(Len(routes) + 1)))
                    @@ inner
    /\ routes' = Append(routes, [method |-> method, path |-> path])
    /\ UNCHANGED <<not_found, state, phase, futs, nf_given, svcs, polled>>

Get(path) == Register("GET", path)

Post(path) == Register("POST", path)

Put(path) == Register("PUT", path)

Delete(path) == Register("DELETE", path)

Patch(path) == Register("PATCH", path)

\* Mutant: a not-found handler already installed is kept.
NotFound_keeps_first(handler) ==
    /\ phase = "build"
    /\ not_found' = IF not_found = NoHandler THEN handler ELSE not_found
    /\ nf_given' = [last |-> handler,
                    over |-> IF nf_given.last \in {NoHandler, handler}
                             THEN NoHandler ELSE nf_given.last]
    /\ UNCHANGED <<inner, state, routes, phase, futs, svcs, polled>>

\* Router::not_found
NotFound(handler) ==
    /\ phase = "build"
    /\ not_found' = handler
    /\ nf_given' = [last |-> handler,
                    over |-> IF nf_given.last \in {NoHandler, handler}
                             THEN NoHandler ELSE nf_given.last]
    /\ UNCHANGED <<inner, state, routes, phase, futs, svcs, polled>>

\* Router::into_service / RouterService::new: the Router moves into an Arc.
IntoService ==
    /\ phase = "build"
    /\ phase' = "serving"
    /\ UNCHANGED <<inner, not_found, state, routes, futs, nf_given, svcs, polled>>

\* Mutant: the extensions of the request are those of a call in flight.
CallOn_shared_extensions(id, s, req) ==
    /\ phase = "serving"
    /\ Free(id)
    /\ LET fut == serve(deref(service(s)), req)
           others == {j \in DOMAIN futs : ~Free(j)}
           seen == IF others # {} /\ fut.via = "route"
                   THEN [fut.req EXCEPT
                           !.params = futs[CHOOSE j \in others : TRUE].req.params]
                   ELSE fut.req
       IN  futs' = [futs EXCEPT ![id] =
                       [Idle EXCEPT !.st = "pending", !.via = fut.via,
                                    !.handler = fut.handler, !.req = seen,
                                    !.arg = req, !.svc = s,
                                    !.invoked = IF fut.via = "default" THEN <<>>
                                                ELSE <<fut.handler>>]]
    /\ UNCHANGED <<inner, not_found, state, routes, phase, nf_given, svcs, polled>>

\* RouterService::call on the instance s: serve runs now on the Router
\* behind the Arc and the handler it chooses is called; the future it
\* returns is pending in slot id.
CallOn(id, s, req) ==
    /\ phase = "serving"
    /\ Free(id)
    /\ LET fut == serve(deref(service(s)), req)
       IN  futs' = [futs EXCEPT ![id] =
                       [Idle EXCEPT !.st = "pending", !.via = fut.via,
                                    !.handler = fut.handler, !.req = fut.req,
                                    !.arg = req, !.svc = s,
                                    !.invoked = IF fut.via = "default" THEN <<>>
                                                ELSE <<fut.handler>>]]
    /\ UNCHANGED <<inner, not_found, state, routes, phase, nf_given, svcs, polled>>

\* RouterService::call on the service the factory holds.
Call(id, req) == CallOn(id, None, req)

\* RouterService::call on an instance the factory has yielded.
ConnCall(id, s, req) ==
    /\ s \in DOMAIN svcs
    /\ CallOn(id, s, req)

\* Mutant: when a route's handler fails, the not-found handler is tried.
Complete_falls_back(id, outcome) ==
    /\ futs[id].st = "pending"
    /\ futs[id].via = "default" => outcome = "ok"
    /\ LET again == /\ outcome = "err" /\ futs[id].via = "route"
                    /\ not_found # NoHandler
           out == IF again THEN HandlerResult(not_found, futs[id].arg, "ok")
                  ELSE served(futs[id], outcome)
       IN  futs' = [futs EXCEPT ![id] =
                       [@ EXCEPT !.st = "done", !.out = out,
                                 !.result = map_err(out),
                                 !.invoked = IF again THEN Append(@, not_found)
                                             ELSE @]]
    /\ UNCHANGED <<inner, not_found, state, routes, phase, nf_given, svcs, polled>>

\* The host polls the future to completion.
Complete(id, outcome) ==
    /\ futs[id].st = "pending"
    /\ futs[id].via = "default" => outcome = "ok"
    /\ LET out == served(futs[id], outcome)
       IN  futs' = [futs EXCEPT ![id] =
                       [@ EXCEPT !.st = "done", !.out = out,
                                 !.result = map_err(out)]]
    /\ UNCHANGED <<inner, not_found, state, routes, phase, nf_given, svcs, polled>>

\* Mutant: dropping a future clears the Arc's Router tables with it.
DropFut_frees_router(id) ==
    /\ ~Free(id)
    /\ futs' = [futs EXCEPT ![id] = IF @.st = "pending" THEN Dropped ELSE Idle]
    /\ inner' = IF futs[id].st = "pending" THEN <<>> ELSE inner
    /\ UNCHANGED <<not_found, state, routes, phase, nf_given, svcs, polled>>

\* The host drops the future: before it completed, or once it has taken
\* its output.
DropFut(id) ==
    /\ ~Free(id)
    /\ futs' = [futs EXCEPT ![id] = IF @.st = "pending" THEN Dropped ELSE Idle]
    /\ UNCHANGED <<inner, not_found, state, routes, phase, nf_given, svcs, polled>>

\* MakeRouterService::call: future::ok(self.inner.clone()); the connection
\* signal is not looked at.
MakeCall(signal) ==
    /\ phase = "serving"
    /\ Len(svcs) < MaxConns
    /\ svcs' = Append(svcs, clone(MakeRouterService.inner))
    /\ UNCHANGED <<inner, not_found, state, routes, phase, futs, nf_given, polled>>

\* RouterService::poll_ready on an instance the factory has yielded.
PollReady(s) ==
    /\ s \in DOMAIN svcs
    /\ polled' = [on |-> "RouterService", res |-> poll_ready(svcs[s])]
    /\ UNCHANGED <<inner, not_found, state, routes, phase, futs, nf_given, svcs>>

\* MakeRouterService::poll_ready
MakePollReady ==
    /\ phase = "serving"
    /\ polled' = [on |-> "MakeRouterService",
                  res |-> make_poll_ready(MakeRouterService)]
    /\ UNCHANGED <<inner, not_found, state, routes, phase, futs, nf_given, svcs>>

Next ==
    \/ \E p \in ProbeRoutes : Get(p)
    \/ \E p \in ProbeRoutes : Post(p)
    \/ \E p \in ProbeRoutes : Put(p)
    \/ \E p \in ProbeRoutes : Delete(p)
    \/ \E p \in ProbeRoutes : Patch(p)
    \/ \E h \in NotFoundHandlers : NotFound(h)
    \/ IntoService
    \/ \E m \in RequestMethods, p \in ProbePaths : Call(1, Request(m, p))
    \/ \E o \in Outcomes : Complete(1, o)
    \/ DropFut(1)

Spec == Init /\ [][Next]_vars

\* Router::new(), GET routes only: the matching of one table.
InitMatch == Init /\ state = "unit"

NextMatch ==
    \/ \E p \in MatchRoutes : Get(p)
    \/ IntoService
    \/ \E p \in Paths : Call(1, Request("GET", p))
    \/ \E o \in Outcomes : Complete(1, o)
    \/ DropFut(1)

SpecMatch == InitMatch /\ [][NextMatch]_vars

\* Several calls in flight on one built Router, completed and dropped in
\* any order.
NextConc ==
    \/ \E p \in ConcRoutes : Get(p)
    \/ \E h \in NotFoundHandlers : NotFound(h)
    \/ IntoService
    \/ \E id \in DOMAIN futs, p \in ConcPaths : Call(id, Request("GET", p))
    \/ \E id \in DOMAIN futs, o \in Outcomes : Complete(id, o)
    \/ \E id \in DOMAIN futs : DropFut(id)

SpecConc == Init /\ [][NextConc]_vars

\* The factory and the instances it yields, as the host drives them: one
\* instance per connection, poll_ready and call on each.
NextSvc ==
    \/ \E p \in SvcRoutes : Get(p)
    \/ NotFound(CHOOSE h \in NotFoundHandlers : TRUE)
    \/ IntoService
    \/ \E signal \in Signals : MakeCall(signal)
    \/ MakePollReady
    \/ \E s \in DOMAIN svcs : PollReady(s)
    \/ \E id \in DOMAIN futs, s \in DOMAIN svcs, p \in ConcPaths :
          ConnCall(id, s, Request("GET", p))
    \/ \E id \in DOMAIN futs, o \in Outcomes : Complete(id, o)
    \/ \E id \in DOMAIN futs : DropFut(id)

SpecSvc == InitMatch /\ [][NextSvc]_vars

----------------------------------------------------------------------------
(* What a pattern matches, stated on the text and apart from the automaton *)

\* segs[k..] matches text[i..] to its end: a separator matches itself, a
\* Literal its own text, a Param one or more characters other than '/', a
\* Wildcard one or more characters.
RECURSIVE matches_from(_, _, _, _)
matches_from(segs, k, text, i) ==
    IF k > Len(segs) THEN i = Len(text) + 1
    ELSE LET sg == segs[k]
             j == IF sg.sep = "" THEN i ELSE i + 1
         IN  /\ sg.sep # "" => (i <= Len(text) /\ text[i] = sg.sep)
             /\ IF IsParamSeg(sg.seg)
                THEN \E e \in j..Len(text) :
                        /\ \A q \in j..e : text[q] # "/"
                        /\ matches_from(segs, k + 1, text, e + 1)
                ELSE IF IsWildSeg(sg.seg)
                THEN \E e \in j..Len(text) :
                        matches_from(segs, k + 1, text, e + 1)
                ELSE /\ j + Len(sg.seg) - 1 <= Len(text)
                     /\ SubSeq(text, j, j + Len(sg.seg) - 1) = sg.seg
                     /\ matches_from(segs, k + 1, text, j + Len(sg.seg))

\* The path satisfies the pattern.
Satisfies(pattern, path) ==
    matches_from(segments(strip_slash(pattern)), 1, strip_slash(path), 1)

\* A pattern without its capture names: two patterns of one shape are the
\* same route to the table.
Shape(pattern) ==
    LET segs == segments(strip_slash(pattern))
    IN  [k \in 1..Len(segs) |->
            [sep |-> segs[k].sep,
             seg |-> IF IsParamSeg(segs[k].seg) THEN <<":">>
                     ELSE IF IsWildSeg(segs[k].seg) THEN <<"*">>
                     ELSE segs[k].seg]]

RouteIds == 1..Len(routes)

\* The registrations under the method of the request that its path satisfies.
Matching(req) ==
    {i \in RouteIds : /\ routes[i].method = req.method
                      /\ Satisfies(routes[i].path, req.path)}

\* The futures of the calls made and not yet dropped.
Dispatches == {futs[id] : id \in {i \in DOMAIN futs : ~Free(i)}}

----------------------------------------------------------------------------
(* Claims *)

\* C1: when the request's method and path satisfy a registered (method,
\* pattern) and no other pattern of that method matches the path, serve
\* invokes the handler registered for that pair, on that request, and the
\* future yields what the handler returned, response or error.
C1_MatchedHandlerResultUnchanged ==
    \A f \in Dispatches : \A i \in Matching(f.arg) :
        Matching(f.arg) = {i} =>
            /\ f.via = "route"
            /\ f.handler = RouteHandler(i)
            /\ f.req.method = f.arg.method /\ f.req.path = f.arg.path
            /\ f.st = "done" =>
                  \E o \in Outcomes :
                     f.out = HandlerResult(RouteHandler(i), f.req, o)

\* A matched handler returned an error and the future yielded it.
C1_Witness ==
    \E f \in Dispatches :
        /\ f.st = "done" /\ Matching(f.arg) = {f.handler.id}
        /\ f.via = "route" /\ ~f.out.ok /\ f.out.body = <<f.handler>>

\* C2: with a not-found handler installed, every request that no route of
\* its method matches invokes that handler, whether the method has a table
\* or not.
C2_NotFoundHandlerOnEveryMiss ==
    \A f \in Dispatches :
        (not_found # NoHandler /\ Matching(f.arg) = {}) =>
            (f.via = "not_found" /\ f.handler = not_found)

\* C3: without a not-found handler, a request that no route of its method
\* matches gets the default response: Ok, status 404, empty body, no error.
C3_DefaultNotFoundInfallible ==
    \A f \in Dispatches :
        (not_found = NoHandler /\ Matching(f.arg) = {}) =>
            /\ f.via = "default"
            /\ f.st = "done" =>
                  /\ f.out = [ok |-> TRUE, status |-> 404, body |-> <<>>]
                  /\ f.result = [ok |-> TRUE, status |-> 404, body |-> <<>>]

\* The default response, for a method that has a table and for one that has none.
C3_Witness ==
    \E f \in Dispatches :
        /\ f.st = "done" /\ not_found = NoHandler /\ f.via = "default"
        /\ f.arg.method \in DOMAIN inner

\* C4: the handler dispatch invokes was registered under the method of the
\* request; with only GET / registered, POST / takes the not-found path.
C4_OwnMethodTableOnly ==
    \A f \in Dispatches :
        /\ f.via = "route" =>
              /\ f.handler.id \in RouteIds
              /\ routes[f.handler.id].method = f.arg.method
        /\ ( /\ routes = <<[method |-> "GET", path |-> <<"/">>]>>
             /\ f.arg.method = "POST" /\ f.arg.path = <<"/">> ) =>
              /\ f.via # "route"
              /\ (f.st = "done" /\ not_found = NoHandler) =>
                    f.out = [ok |-> TRUE, status |-> 404, body |-> <<>>]

\* The path is matched by a route of another method only, and no route
\* handler runs.
C4_Witness ==
    \E f \in Dispatches :
        /\ f.st = "done" /\ f.via # "route"
        /\ \E i \in RouteIds : /\ routes[i].method # f.arg.method
                               /\ Satisfies(routes[i].path, f.arg.path)

\* C7: the handler of every matched request reads, through state(), the
\* state the router was constructed with, and the router's state never
\* changes.
C7_MatchedHandlerObservesState ==
    /\ [](\A f \in Dispatches : f.via = "route" => state_of(f.req) = state)
    /\ [][state' = state]_vars

\* A matched handler ran with the state of a router built with_state.
C7_Witness ==
    \E f \in Dispatches :
        /\ f.st = "done" /\ f.via = "route"
        /\ state = "s1" /\ state_of(f.req) = "s1"

\* C8: every handler dispatch invokes, a route's or the not-found handler,
\* gets a request from which state() returns the router's state.
C8_EveryHandlerObservesState ==
    \A f \in Dispatches :
        f.via \in {"route", "not_found"} => state_of(f.req) = state

\* The pattern of the route whose handler the dispatch invoked.
Chosen(f) == routes[f.handler.id].path

\* The last segment of the pattern that captures under the name.
LastNamed(pat, name) ==
    CHOOSE k \in 1..Len(pat) :
        /\ (IsParamSeg(pat[k]) \/ IsWildSeg(pat[k])) /\ Tail(pat[k]) = name
        /\ \A j \in (k + 1)..Len(pat) :
              ~((IsParamSeg(pat[j]) \/ IsWildSeg(pat[j])) /\ Tail(pat[j]) = name)

C6_WildcardConsumesRemainder ==
    \A f \in Dispatches :
        /\ \A i \in RouteIds :
              ( /\ routes[i].method = f.arg.method
                /\ WildcardPattern(routes[i].path)
                /\ WildcardAligns(routes[i].path, f.arg.path) ) => f.via = "route"
        /\ (f.via = "route" /\ WildcardPattern(Chosen(f))) =>
              LET pat == Split(Chosen(f))
                  segs == Split(f.arg.path)
                  name == Tail(pat[Len(pat)])
              IN  /\ WildcardAligns(Chosen(f), f.arg.path)
                  /\ params(f.req).some
                  /\ DOMAIN params(f.req).map = CaptureNames(pat)
                  /\ name # <<>> =>
                        find(params(f.req).map, name) = join_from(segs, Len(pat))
                  /\ name = <<>> =>
                        \A v \in {params(f.req).map[n] : n \in DOMAIN params(f.req).map} :
                            \E k \in 1..(Len(pat) - 1) : v = segs[k]

\* /a/*w matched /a/b/a with w = b/a.
C6_Witness ==
    \E f \in Dispatches :
        /\ f.via = "route"
        /\ Chosen(f) = <<"/", "a", "/", "*", "w">>
        /\ find(params(f.req).map, <<"w">>) = <<"b", "/", "a">>

\* The anonymous wildcard matched several segments and captured nothing.
C6_WitnessAnonymous ==
    \E f \in Dispatches :
        /\ f.via = "route"
        /\ Chosen(f) = <<"/", "a", "/", "*">>
        /\ Len(Split(f.arg.path)) = 3
        /\ DOMAIN params(f.req).map = {}

\* The routes the table holds: a later registration of the same shape under
\* the same method replaces the earlier one.
Live(i) ==
    \A j \in RouteIds :
        (j > i /\ routes[j].method = routes[i].method)
            => Shape(routes[j].path) # Shape(routes[i].path)

Counts(pattern) ==
    LET segs == segments(strip_slash(pattern))
        n(P(_)) == Cardinality({k \in 1..Len(segs) : P(segs[k].seg)})
        IsLiteral(seg) == ~IsParamSeg(seg) /\ ~IsWildSeg(seg)
    IN  [literals |-> n(IsLiteral), params |-> n(IsParamSeg),
         wildcards |-> n(IsWildSeg)]

Outranks(a, b) ==
    \/ a.literals > b.literals
    \/ a.literals = b.literals /\ a.params > b.params
    \/ a.literals = b.literals /\ a.params = b.params /\ a.wildcards > b.wildcards

\* The number of leading segments of the pattern that are Literals.
LiteralRun(pattern) ==
    LET pat == Split(pattern)
        stops == {k \in 1..Len(pat) : IsParamSeg(pat[k]) \/ IsWildSeg(pat[k])}
    IN  IF stops = {} THEN Len(pat) ELSE MinOf(stops) - 1

\* At the first position where the two patterns differ, the first has a
\* Param and the second a Wildcard.
ParamOverWildcard(p, q) ==
    LET a == Shape(p)
        b == Shape(q)
        diff == {k \in 1..Len(a) : k > Len(b) \/ a[k] # b[k]}
    IN  /\ diff # {}
        /\ MinOf(diff) <= Len(b)
        /\ a[MinOf(diff)].seg = <<":">>
        /\ b[MinOf(diff)].seg = <<"*">>

\* The number of Literal segments of the pattern.
LiteralCount(pattern) ==
    Cardinality({k \in 1..Len(Split(pattern)) :
                    ~IsParamSeg(Split(pattern)[k]) /\ ~IsWildSeg(Split(pattern)[k])})

\* The order the claim gives, for the literal agreement runI and runJ of
\* the patterns of registrations i and j: the greater agreement, then Param over Wildcard at the first difference, then
\* the earlier registration.
ClaimedBefore(runI, runJ, i, j) ==
    \/ runI > runJ
    \/ /\ runI = runJ
       /\ \/ ParamOverWildcard(routes[i].path, routes[j].path)
          \/ /\ ~ParamOverWildcard(routes[j].path, routes[i].path)
             /\ i < j

Alone(req, outcome) ==
    LET fut == serve(Router, req)
    IN  [via |-> fut.via, handler |-> fut.handler, req |-> fut.req,
         result |-> IF fut.via = "default" THEN Default404
                    ELSE IF outcome = "ok"
                         THEN HandlerResult(fut.handler, fut.req, outcome)
                         ELSE [HandlerResult(fut.handler, fut.req, outcome)
                                 EXCEPT !.body = <<"boxed">> \o @]]

\* C11: with any number of calls in flight on one built Router, made,
\* completed and dropped in any order, each call takes the routing decision
\* and yields the result it has when dispatched alone, and the Params and
\* State its handler sees are those of its own request: the Params captured
\* from its own path and the Router's state, never those of another call.
C11_ConcurrentDispatchIndependent ==
    \A id \in DOMAIN futs :
        ~Free(id) =>
            LET f == futs[id]
            IN  /\ \E o \in Outcomes :
                      /\ f.via = Alone(f.arg, o).via
                      /\ f.handler = Alone(f.arg, o).handler
                      /\ f.req = Alone(f.arg, o).req
                      /\ f.st = "done" => f.result = Alone(f.arg, o).result
                /\ f.via = "route" =>
                      /\ params(f.req).some
                      /\ params(f.req).map =
                            recognize(inner[f.arg.method], f.arg.path).params
                      /\ state_of(f.req) = state

\* Two calls in flight at once whose requests capture different Params, one
\* completed while the other is pending.
C11_Witness ==
    \E i, j \in DOMAIN futs :
        /\ futs[i].st = "done" /\ futs[j].st = "pending"
        /\ futs[i].via = "route" /\ futs[j].via = "route"
        /\ params(futs[i].req).map # params(futs[j].req).map

\* C12: when the future of a call is dropped before it completes, the
\* Router's tables, not-found handler and state are as before, every other
\* slot is untouched (a call in flight stays in flight with its decision, a
\* completed one keeps its result), and the requests dispatched afterwards
\* take the decision they took before.
C12_DropLeavesRouterAndOthers ==
    [][\A id \in DOMAIN futs :
          (futs[id].st = "pending" /\ futs'[id].st = "dropped") =>
              /\ inner' = inner /\ not_found' = not_found /\ state' = state
              /\ \A j \in DOMAIN futs \ {id} : futs'[j] = futs[j]
              /\ \A p \in ConcPaths :
                    serve(Router', Request("GET", p))
                        = serve(Router, Request("GET", p))]_vars

\* A future was dropped before it completed, and another call has completed
\* on a route with its result.
C12_Witness ==
    \E i, j \in DOMAIN futs :
        /\ futs[i].st = "dropped"
        /\ futs[j].st = "done" /\ futs[j].via = "route"

\* C13: every poll_ready, of a RouterService or of the MakeRouterService,
\* has returned Ready(Ok(())), whatever calls are in flight, completed or
\* failed, and would return it if polled now; a call is never queued: every
\* call made has taken its routing decision and called its handler.
C13_AlwaysReady ==
    /\ polled # NotPolled => polled.res = ReadyOk
    /\ \A s \in DOMAIN svcs : poll_ready(svcs[s]) = ReadyOk
    /\ phase = "serving" => make_poll_ready(MakeRouterService) = ReadyOk
    /\ \A f \in Dispatches :
          /\ f.st \in {"pending", "done"}
          /\ f.via \in {"route", "not_found", "default"}
          /\ f.via # "default" => f.invoked # <<>>

\* A RouterService was polled while one call is in flight and another has
\* failed.
C13_Witness ==
    /\ polled.on = "RouterService"
    /\ \E i, j \in DOMAIN futs :
          /\ futs[i].st = "pending"
          /\ futs[j].st = "done" /\ ~futs[j].result.ok

\* C14: every instance the factory has yielded is a handle on the one
\* Router, the same Arc as the service the factory holds, and none carries
\* anything else; a request dispatched through one instance takes the
\* decision it takes through every other.
C14_FactorySharesRouter ==
    /\ \A s \in DOMAIN svcs :
          /\ svcs[s] = MakeRouterService.inner
          /\ DOMAIN svcs[s] = {"arc"}
    /\ \A f \in Dispatches : \A s \in DOMAIN svcs :
          LET other == serve(deref(svcs[s]), f.arg)
          IN  /\ f.via = other.via
              /\ f.handler = other.handler
              /\ f.req = other.req

\* The factory was called MaxConns times and the same request is in flight
\* through two of the instances, on a route.
C14_Witness ==
    /\ Len(svcs) = MaxConns
    /\ \E i, j \in DOMAIN futs :
          /\ ~Free(i) /\ ~Free(j)
          /\ futs[i].svc # futs[j].svc
          /\ futs[i].arg = futs[j].arg
          /\ futs[i].via = "route"

\* C15: serve and call fail only with the error of the handler they invoked,
\* a route's or the installed not-found handler; a request no route of its
\* method matches, with or without a table for the method, never fails by
\* itself, and with no not-found handler it is answered with a response.
C15_MissNeverAnError ==
    \A f \in Dispatches :
        f.st = "done" =>
            /\ ~f.out.ok =>
                  /\ f.via \in {"route", "not_found"}
                  /\ f.invoked = <<f.handler>>
                  /\ f.out = [ok |-> FALSE, status |-> 0, body |-> <<f.handler>>]
            /\ ~f.result.ok => ~f.out.ok
            /\ (Matching(f.arg) = {} /\ f.via # "not_found") =>
                  f.out.ok /\ f.result.ok

\* A miss answered with the default response although a not-found handler is
\* installed: the method of the request has no table.
C15_Witness ==
    \E f \in Dispatches :
        /\ f.st = "done" /\ Matching(f.arg) = {}
        /\ not_found # NoHandler /\ f.via = "default" /\ f.result.ok

\* C16: the future of RouterService::call yields Ok exactly when the future
\* of serve on the same request does, with the same response; when serve
\* yields the handler's error, call yields that error boxed, and nothing
\* else makes a call fail.
C16_CallYieldsServeOutcome ==
    \A f \in Dispatches :
        f.st = "done" =>
            /\ f.result.ok = f.out.ok
            /\ f.out.ok => f.result = f.out
            /\ ~f.out.ok =>
                  /\ f.out.body = <<f.handler>>
                  /\ f.result = [ok |-> FALSE, status |-> f.out.status,
                                 body |-> <<"boxed", f.handler>>]
            /\ LET fut == serve(Router, f.arg)
               IN  \E o \in Outcomes :
                      f.out = IF fut.via = "default" THEN Default404
                              ELSE HandlerResult(fut.handler, fut.req, o)

\* A call whose not-found handler failed: the call yields the boxed error.
C16_Witness ==
    \E f \in Dispatches :
        /\ f.st = "done" /\ f.via = "not_found"
        /\ ~f.result.ok /\ f.result.body = <<"boxed", f.handler>>

\* C17: the handler invoked on the not-found path is the one given to the
\* latest not_found call, whatever registrations came between the calls; a
\* handler that call replaced is not invoked.
C17_LastNotFoundWins ==
    /\ phase = "serving" => not_found = nf_given.last
    /\ \A f \in Dispatches :
          f.via = "not_found" =>
              /\ f.handler = nf_given.last
              /\ f.invoked = <<nf_given.last>>
              /\ f.handler # nf_given.over

\* not_found was called with one handler and later with another, a route
\* was registered, and a request took the not-found path.
C17_Witness ==
    \E f \in Dispatches :
        /\ f.via = "not_found" /\ f.st = "done"
        /\ nf_given.over # NoHandler
        /\ routes # <<>>

\* C18: once the Router is behind the Arc of a service, no step changes its
\* tables, its not-found handler or its state, no route is registered and
\* the build phase does not come back, whatever calls are made, completed
\* with a response or an error, or dropped; so a request takes the same
\* routing decision before and after every step, and every call in flight
\* holds the decision the Router gives its request now.
C18_FrozenOnceServing ==
    /\ [][phase = "serving" =>
            /\ inner' = inner /\ not_found' = not_found /\ state' = state
            /\ routes' = routes /\ phase' = "serving"
            /\ \A p \in ConcPaths :
                  serve(Router', Request("GET", p))
                      = serve(Router, Request("GET", p))]_vars
    /\ [](\A f \in Dispatches :
            /\ f.via = serve(Router, f.arg).via
            /\ f.handler = serve(Router, f.arg).handler)

\* Serving, with one call failed, another dropped before completion, and
\* routes and a not-found handler in place.
C18_Witness ==
    /\ phase = "serving" /\ routes # <<>> /\ not_found # NoHandler
    /\ \E i, j \in DOMAIN futs :
          /\ futs[i].st = "dropped"
          /\ futs[j].st = "done" /\ ~futs[j].result.ok

\* C19: a call invokes no handler when it synthesizes the default response
\* and otherwise exactly one, once: the handler serve chose for the request.
\* What the call yields is that handler's output; when the handler fails the
\* call yields its error, and neither the not-found handler nor any other
\* handler is invoked after it.
C19_OneDispatchAttempt ==
    \A f \in Dispatches :
        /\ Len(f.invoked) <= 1
        /\ f.via = "default" <=> f.invoked = <<>>
        /\ f.via # "default" =>
              /\ f.invoked = <<serve(Router, f.arg).handler>>
              /\ f.st = "done" => f.out.body[Len(f.invoked)] = f.handler
        /\ (f.st = "done" /\ ~f.out.ok) => f.out.body = f.invoked

\* A route's handler failed while a not-found handler is installed: the
\* call ended with the one invocation.
C19_Witness ==
    \E f \in Dispatches :
        /\ f.st = "done" /\ f.via = "route" /\ ~f.out.ok
        /\ not_found # NoHandler
        /\ f.invoked = <<f.handler>>

\* C20: a registration under a method leaves the tables of the other
\* methods, the not-found handler and the state as they were; the method
\* has a table afterwards, and the set of tables grows by at most that one.
\* A request that was dispatched to an earlier registration is still
\* dispatched to it, unless it is of the method of the new pattern and its
\* path satisfies the new pattern.
C20_RegisterTouchesOneTable ==
    [][routes' # routes =>
          LET new == routes'[Len(routes')]
          IN  /\ Len(routes') = Len(routes) + 1
              /\ SubSeq(routes', 1, Len(routes)) = routes
              /\ DOMAIN inner' = DOMAIN inner \cup {new.method}
              /\ \A m \in DOMAIN inner \ {new.method} : inner'[m] = inner[m]
              /\ not_found' = not_found /\ state' = state
              /\ \A i \in RouteIds : \A p \in ProbePaths :
                    LET req == Request(routes[i].method, p)
                    IN  (/\ serve(Router, req).handler = RouteHandler(i)
                         /\ \/ routes[i].method # new.method
                            \/ ~Satisfies(new.path, p))
                        => serve(Router', req).handler = RouteHandler(i)]_vars

\* Two routes under one method; a request is dispatched to the first and
\* does not satisfy the second.
C20_Witness ==
    /\ Len(routes) = MaxRoutes
    /\ \E i, j \in RouteIds :
          /\ i < j /\ routes[i].method = routes[j].method
          /\ \E f \in Dispatches :
                /\ f.via = "route" /\ f.handler = RouteHandler(i)
                /\ ~Satisfies(routes[j].path, f.arg.path)

\* The parameter names a handler may ask for.
ParamNames == {<<"x">>, <<"y">>, <<"w">>}

\* C21: the request a route's handler gets has Params attached, and when
\* the pattern has no capture find returns nothing for every name; the
\* request the not-found handler gets has no Params and is the request as
\* the call received it.  Params are present exactly on a match.
C21_ParamsExactlyOnMatch ==
    \A f \in Dispatches :
        /\ params(f.req).some <=> f.via = "route"
        /\ f.via = "route" =>
              /\ Matching(f.arg) # {}
              /\ CaptureNames(Split(Chosen(f))) = {} =>
                    \A name \in ParamNames :
                        find(params(f.req).map, name) = None
        /\ f.via = "not_found" =>
              /\ params(f.req) = NoParams
              /\ f.req = f.arg

\* At once: a call on a route whose pattern has no capture, and a call
\* handed to the not-found handler.
C21_Witness ==
    \E i, j \in DOMAIN futs :
        /\ ~Free(i) /\ futs[i].via = "route"
        /\ CaptureNames(Split(Chosen(futs[i]))) = {}
        /\ params(futs[i].req).some
        /\ ~Free(j) /\ futs[j].via = "not_found"

\* C22: a request that matches a route of its method is dispatched to a
\* route's handler, the one the Router would choose with any not-found
\* handler installed or with none, on the same request; the not-found
\* handler is not invoked for it, also when the route's handler fails, and
\* the call yields the route handler's output.
C22_NotFoundLeavesMatchesAlone ==
    \A f \in Dispatches :
        Matching(f.arg) # {} =>
            /\ f.via = "route" /\ f.handler.kind = "route"
            /\ f.invoked = <<f.handler>>
            /\ \A h \in NotFoundHandlers \cup {NoHandler} :
                  LET other == serve([Router EXCEPT !.not_found = h], f.arg)
                  IN  /\ f.handler = other.handler
                      /\ f.req = other.req
            /\ f.st = "done" =>
                  \E o \in Outcomes :
                      f.out = IF o = "ok"
                              THEN [ok |-> TRUE, status |-> 200,
                                    body |-> <<f.handler, f.req>>]
                              ELSE [ok |-> FALSE, status |-> 0,
                                    body |-> <<f.handler>>]

\* A not-found handler has replaced another, and a matched request's
\* handler failed.
C22_Witness ==
    \E f \in Dispatches :
        /\ Matching(f.arg) # {} /\ f.st = "done" /\ ~f.out.ok
        /\ not_found # NoHandler /\ nf_given.over # NoHandler

====
